---- MODULE Spec2Model ----
(***************************************************************************)
(* Model of the vote admission engine of the hockey match voting server    *)
(* (src/server.js): the Game and Vote collections, the POST                *)
(* /api/games/:id/votes handler as the sequence of its awaited store       *)
(* operations, and the admin close / reopen / delete handlers.             *)
(*                                                                         *)
(* JavaScript strings are sequences of one-character strings, so that      *)
(* String.prototype.trim has something to do.  The value undefined (and    *)
(* any other non-string) of a field that the code tests with typeof is the *)
(* one-element sequence Undefined.  ObjectIds are positive naturals, 0 is  *)
(* a missing (falsy) id.                                                   *)
(***************************************************************************)
EXTENDS Naturals, Integers, Sequences, FiniteSets

VARIABLES games, votes, reqs, tearing, nextGame, nextOid, nextVote, submitted,
          results

vars ==
  <<games, votes, reqs, tearing, nextGame, nextOid, nextVote, submitted, results>>

(* ------------------------------ bounds -------------------------------- *)

MaxGames == 2
MaxMoments == 3
MaxSubmits == 2

(* ------------------------------ values -------------------------------- *)

SP == " "
Undefined == <<"undefined">>
EmptyStr == <<>>

GameIds == 1..MaxGames
Reqs == {"r1", "r2"}
Tokens == {"t1", "t2"}

RECURSIVE TrimLeft(_)
TrimLeft(s) ==
  IF s = <<>> THEN <<>>
  ELSE IF Head(s) = SP THEN TrimLeft(Tail(s)) ELSE s

RECURSIVE TrimRight(_)
TrimRight(s) ==
  IF s = <<>> THEN <<>>
  ELSE IF s[Len(s)] = SP THEN TrimRight(SubSeq(s, 1, Len(s) - 1)) ELSE s

Trim(s) == TrimRight(TrimLeft(s))

\* typeof v === "string" ? v.trim() : ""
TrimIfString(v) == IF v = Undefined THEN EmptyStr ELSE Trim(v)

(* ---------------------------- documents ------------------------------- *)

NoGame ==
  [exists |-> FALSE, status |-> "open", teamSheet |-> <<>>, champagneMoments |-> <<>>]

\* a category of a Vote document that is not set
NoNomination == [has |-> FALSE, player |-> EmptyStr, comment |-> EmptyStr]
NoChampagne == [has |-> FALSE, eventId |-> 0, comment |-> EmptyStr]

\* a category that the request body does not carry (=== undefined)
AbsentEntry == [present |-> FALSE, player |-> Undefined, comment |-> Undefined]
AbsentChampagne ==
  [present |-> FALSE, eventId |-> 0, textIfNew |-> Undefined, comment |-> Undefined]

NoMoment == [_id |-> 0, text |-> EmptyStr]

\* the results request before it has run
NoResults ==
  [pc |-> "idle", gameId |-> 0, token |-> "", status |-> 0,
   game |-> NoGame, votes |-> <<>>,
   totals |-> [mom |-> <<>>, dod |-> <<>>], champagneMoments |-> <<>>,
   userVotes |-> [has |-> FALSE, mom |-> {}, dod |-> {}, champagne |-> {}]]

IdleReq ==
  [pc |-> "idle", gameId |-> 0,
   voter |-> [name |-> Undefined, token |-> ""],
   mom |-> AbsentEntry, dod |-> AbsentEntry, champagneMoment |-> AbsentChampagne,
   pushed |-> NoMoment, status |-> 0,
   during |-> {}, repeat |-> FALSE, matched |-> {}]

(* --------------------------- request inputs --------------------------- *)

\* mom / dod entries of a request body
NominationInputs ==
  { AbsentEntry,
    [present |-> TRUE, player |-> Undefined, comment |-> Undefined],
    [present |-> TRUE, player |-> <<SP>>, comment |-> <<"c">>],
    [present |-> TRUE, player |-> <<SP, "A", SP>>, comment |-> <<"c", SP>>],
    [present |-> TRUE, player |-> <<"B">>, comment |-> Undefined] }

\* champagneMoment entries of a request body
ChampagneInputs ==
  { AbsentChampagne,
    [present |-> TRUE, eventId |-> 0, textIfNew |-> Undefined, comment |-> Undefined],
    [present |-> TRUE, eventId |-> 0, textIfNew |-> <<SP>>, comment |-> <<"c">>],
    [present |-> TRUE, eventId |-> 1, textIfNew |-> Undefined, comment |-> Undefined],
    [present |-> TRUE, eventId |-> 2, textIfNew |-> EmptyStr, comment |-> <<SP, "c">>],
    [present |-> TRUE, eventId |-> 0, textIfNew |-> <<SP, "t">>, comment |-> <<"c", SP>>],
    [present |-> TRUE, eventId |-> 1, textIfNew |-> <<"t">>, comment |-> Undefined] }

VoterInputs ==
  { [name |-> <<"n", SP>>, token |-> "t1"],
    [name |-> <<"n">>, token |-> "t2"],
    [name |-> <<SP>>, token |-> "t1"],
    [name |-> Undefined, token |-> "t2"],
    [name |-> <<"n">>, token |-> ""] }

Body(g, v, m, d, c) ==
  [gameId |-> g, voter |-> v, mom |-> m, dod |-> d, champagneMoment |-> c]

\* the ballots of the sequential specification: every entry of one category
\* alone, and every combination of the entries that set or clear a category
Present(S) == {e \in S : e.present}
SeqBallots ==
  {<<m, AbsentEntry, AbsentChampagne>> : m \in NominationInputs}
    \cup {<<AbsentEntry, d, AbsentChampagne>> : d \in NominationInputs}
    \cup {<<AbsentEntry, AbsentEntry, c>> : c \in ChampagneInputs}
    \cup {<<m, d, c>> : m \in {e \in Present(NominationInputs) : e.comment # Undefined},
                        d \in {e \in Present(NominationInputs) : e.comment = Undefined},
                        c \in {e \in Present(ChampagneInputs) : e.comment = Undefined}}

\* the ballots of the concurrent specification: one that carries a single
\* category and two that carry all three
RaceBallots ==
  { <<AbsentEntry,
      [present |-> TRUE, player |-> <<"B">>, comment |-> Undefined],
      AbsentChampagne>>,
    <<[present |-> TRUE, player |-> <<SP, "A", SP>>, comment |-> <<"c", SP>>],
      [present |-> TRUE, player |-> Undefined, comment |-> Undefined],
      [present |-> TRUE, eventId |-> 0, textIfNew |-> <<SP, "t">>, comment |-> <<"c", SP>>]>>,
    <<[present |-> TRUE, player |-> <<"B">>, comment |-> Undefined],
      [present |-> TRUE, player |-> <<"B">>, comment |-> Undefined],
      [present |-> TRUE, eventId |-> 1, textIfNew |-> Undefined, comment |-> Undefined]>> }

Bodies(ballots, voters) ==
  {Body(g, v, b[1], b[2], b[3]) : g \in GameIds, v \in voters, b \in ballots}

\* voter.token present and voter.name not blank
ValidVoters == {v \in VoterInputs : v.token # "" /\ TrimIfString(v.name) # EmptyStr}

\* one voter with every ballot; the other voters with the ballots of RaceBallots
SeqBodies ==
  Bodies(SeqBallots, {v \in ValidVoters : v.token = "t1"})
    \cup Bodies(RaceBallots, VoterInputs)

RaceBodies == Bodies(RaceBallots, ValidVoters)

(* ------------------------- the vote handler --------------------------- *)

\* formatNomination without its test of a blank player
formatNominationKeepBlank(entry) ==
  [has |-> TRUE, player |-> TrimIfString(entry.player),
   comment |-> TrimIfString(entry.comment)]

\* formatNomination: the stored {player, comment}, or NoNomination for null
formatNomination(entry) ==
  LET player == TrimIfString(entry.player)
  IN IF player = EmptyStr THEN NoNomination
     ELSE [has |-> TRUE, player |-> player, comment |-> TrimIfString(entry.comment)]

\* const newText = typeof textIfNew === "string" ? textIfNew.trim() : ""
NewText(body) ==
  IF body.champagneMoment.present
  THEN TrimIfString(body.champagneMoment.textIfNew) ELSE EmptyStr

\* champagneUpdate: pushedId is the _id of the moment this request pushed, or 0
ChampagneUpdate(cm, pushedId) ==
  LET fromText == IF TrimIfString(cm.textIfNew) # EmptyStr THEN pushedId ELSE 0
      eventId == IF cm.eventId # 0 THEN cm.eventId ELSE fromText
      comment == IF cm.comment # Undefined THEN Trim(cm.comment) ELSE EmptyStr
  IN IF eventId # 0
     THEN [has |-> TRUE, eventId |-> eventId, comment |-> comment]
     ELSE NoChampagne

\* the fields of updateDoc.$set: a function from field names to values
SetDoc(body, pushedId) ==
  LET momVote == formatNomination(body.mom)
      dodVote == formatNomination(body.dod)
      champagneUpdate == ChampagneUpdate(body.champagneMoment, pushedId)
      fields == {"voter", "gameId"}
                  \cup (IF body.mom.present /\ momVote.has THEN {"mom"} ELSE {})
                  \cup (IF body.dod.present /\ dodVote.has THEN {"dod"} ELSE {})
                  \cup (IF body.champagneMoment.present /\ champagneUpdate.has
                        THEN {"champagneMoment"} ELSE {})
  IN [f \in fields |->
        CASE f = "voter" -> [name |-> TrimIfString(body.voter.name),
                             token |-> body.voter.token]
          [] f = "gameId" -> body.gameId
          [] f = "mom" -> [player |-> momVote.player, comment |-> momVote.comment]
          [] f = "dod" -> [player |-> dodVote.player, comment |-> dodVote.comment]
          [] f = "champagneMoment" ->
               [eventId |-> champagneUpdate.eventId, comment |-> champagneUpdate.comment]]

\* unsetDoc without the else branch of the champagneMoment block
UnsetDocNoChampagne(body, pushedId) ==
  (IF body.mom.present /\ ~formatNomination(body.mom).has THEN {"mom"} ELSE {})
    \cup (IF body.dod.present /\ ~formatNomination(body.dod).has THEN {"dod"} ELSE {})

\* the keys of unsetDoc
UnsetDoc(body, pushedId) ==
  (IF body.mom.present /\ ~formatNomination(body.mom).has THEN {"mom"} ELSE {})
    \cup (IF body.dod.present /\ ~formatNomination(body.dod).has THEN {"dod"} ELSE {})
    \cup (IF body.champagneMoment.present
             /\ ~ChampagneUpdate(body.champagneMoment, pushedId).has
          THEN {"champagneMoment"} ELSE {})

(* --------------------------- the vote store --------------------------- *)

\* a filter on the gameId alone
MatchingGameOnly(vs, gameId, token) == {v \in vs : v.gameId = gameId}

\* the documents matched by { gameId, "voter.token" }
Matching(vs, gameId, token) ==
  {v \in vs : v.gameId = gameId /\ v.voter.token = token}

\* variants of the update: $unset ignored, the document replaced by the
\* $set fields, and $setOnInsert in place of $set
ApplyUpdateNoUnset(doc, setDoc, unsetDoc) ==
  [f \in DOMAIN doc \cup DOMAIN setDoc |->
     IF f \in DOMAIN setDoc THEN setDoc[f] ELSE doc[f]]

ApplyUpdateReplace(doc, setDoc, unsetDoc) ==
  [f \in {"_id"} \cup DOMAIN setDoc |->
     IF f \in DOMAIN setDoc THEN setDoc[f] ELSE doc[f]]

ApplyUpdateFirstWins(doc, setDoc, unsetDoc) ==
  [f \in (DOMAIN doc \cup DOMAIN setDoc) \ unsetDoc |->
     IF f \in DOMAIN doc THEN doc[f] ELSE setDoc[f]]

\* $set then $unset applied to one document
ApplyUpdate(doc, setDoc, unsetDoc) ==
  [f \in (DOMAIN doc \cup DOMAIN setDoc) \ unsetDoc |->
     IF f \in DOMAIN setDoc THEN setDoc[f] ELSE doc[f]]

\* the collection without its unique index
DuplicateKeyNoIndex(vs, gameId, token) == FALSE

\* the unique index on { gameId, "voter.token" } rejects the insert (E11000)
DuplicateKey(vs, gameId, token) == Matching(vs, gameId, token) # {}

(* ------------------------------ Init ---------------------------------- *)

Init ==
  /\ games = [g \in GameIds |-> NoGame]
  /\ votes = {}
  /\ reqs = [r \in Reqs |-> IdleReq]
  /\ tearing = {}
  /\ nextGame = 1
  /\ nextOid = 1
  /\ nextVote = 1
  /\ submitted = 0
  /\ results = NoResults

(* ---------------------------- admin routes ---------------------------- *)

\* POST /api/games: a body without a team sheet is answered 400; otherwise
\* Game.create with status "open", the team sheet and the initial moments
CreateGame(teamSheet, texts) ==
  /\ nextGame <= MaxGames
  /\ nextOid + Len(texts) <= MaxMoments + 1
  /\ IF Len(teamSheet) = 0
     THEN UNCHANGED <<games, nextGame, nextOid>>
     ELSE /\ games' = [games EXCEPT ![nextGame] =
                 [exists |-> TRUE, status |-> "open", teamSheet |-> teamSheet,
                  champagneMoments |->
                    [i \in 1..Len(texts) |-> [_id |-> nextOid + i - 1, text |-> texts[i]]]]]
          /\ nextGame' = nextGame + 1
          /\ nextOid' = nextOid + Len(texts)
  /\ UNCHANGED <<votes, reqs, tearing, nextVote, submitted, results>>

\* a variant that changes the status of a game only while it has no Vote
SetStatusGated(g, status) ==
  /\ games' = IF games[g].exists /\ {v \in votes : v.gameId = g} = {}
              THEN [games EXCEPT ![g].status = status] ELSE games
  /\ UNCHANGED <<votes, reqs, tearing, nextGame, nextOid, nextVote, submitted, results>>

\* Game.findByIdAndUpdate(id, { status })
SetStatus(g, status) ==
  /\ games' = IF games[g].exists THEN [games EXCEPT ![g].status = status] ELSE games
  /\ UNCHANGED <<votes, reqs, tearing, nextGame, nextOid, nextVote, submitted, results>>

\* PATCH /api/admin/games/:id/close
CloseGame(g) == SetStatus(g, "closed")

\* PATCH /api/admin/games/:id/reopen
ReopenGame(g) == SetStatus(g, "open")

\* DELETE /api/admin/games/:id, first await: Vote.deleteMany({ gameId })
DeleteVotes(g) ==
  /\ g < nextGame
  /\ g \notin tearing
  /\ votes' = {v \in votes : v.gameId # g}
  /\ tearing' = tearing \cup {g}
  /\ UNCHANGED <<games, reqs, nextGame, nextOid, nextVote, submitted, results>>

\* DELETE /api/admin/games/:id, second await: Game.findByIdAndDelete(id)
DeleteGame(g) ==
  /\ g \in tearing
  /\ games' = [games EXCEPT ![g] = NoGame]
  /\ tearing' = tearing \ {g}
  /\ UNCHANGED <<votes, reqs, nextGame, nextOid, nextVote, submitted, results>>

(* ----------------------- POST /api/games/:id/votes -------------------- *)

BodyOf(q) == Body(q.gameId, q.voter, q.mom, q.dod, q.champagneMoment)

InFlight(q) == q.pc \in {"save", "upsert", "insert"}

\* the request r at position pc of the handler.  pushed is the moment the
\* handler pushed on its copy of the game, status the HTTP status it answered
\* (0 while it runs).  Three fields are history, read by the properties only:
\* during (the requests that were running when this one arrived), repeat
\* (this body is the one the same client had just been answered 200 for) and
\* matched (the document findOneAndUpdate found, before the update).
Req(r, pc, body, pushed, status) ==
  [pc |-> pc, gameId |-> body.gameId, voter |-> body.voter,
   mom |-> body.mom, dod |-> body.dod, champagneMoment |-> body.champagneMoment,
   pushed |-> pushed, status |-> status,
   during |-> {o \in Reqs \ {r} : InFlight(reqs[o])},
   repeat |-> (reqs[r].pc = "done" /\ reqs[r].status = 200 /\ BodyOf(reqs[r]) = body),
   matched |-> {}]

\* the status of the early return among the three checks, 0 when all pass
PreconditionVoterFirst(game, body) ==
  IF ~game.exists THEN 404
  ELSE IF body.voter.token = "" \/ TrimIfString(body.voter.name) = EmptyStr THEN 400
  ELSE IF game.status = "closed" THEN 403
  ELSE 0

Precondition(game, body) ==
  IF ~game.exists THEN 404
  ELSE IF game.status = "closed" THEN 403
  ELSE IF body.voter.token = "" \/ TrimIfString(body.voter.name) = EmptyStr THEN 400
  ELSE 0

\* where the handler stands at its next await: an early return ends it
AfterChecksNoReturn(status, newText) ==
  IF newText # EmptyStr THEN "save" ELSE "upsert"

AfterChecks(status, newText) ==
  IF status # 0 THEN "done"
  ELSE IF newText # EmptyStr THEN "save" ELSE "upsert"

\* the request arrives: Game.findById, the three checks, and the synchronous
\* code up to the next await (game.save() when the body carries new text,
\* Vote.findOneAndUpdate otherwise)
SubmitVote(r, body) ==
  /\ reqs[r].pc \in {"idle", "done"}
  /\ submitted < MaxSubmits
  /\ submitted' = submitted + 1
  /\ LET status == Precondition(games[body.gameId], body)
         newText == NewText(body)
         pc == AfterChecks(status, newText)
     IN IF pc = "save"
        THEN /\ nextOid <= MaxMoments
             /\ reqs' = [reqs EXCEPT ![r] =
                           Req(r, pc, body, [_id |-> nextOid, text |-> newText], status)]
             /\ nextOid' = nextOid + 1
        ELSE /\ reqs' = [reqs EXCEPT ![r] = Req(r, pc, body, NoMoment, status)]
             /\ UNCHANGED nextOid
  /\ UNCHANGED <<games, votes, tearing, nextGame, nextVote, results>>

\* variants of the $push: a moment whose text the game already has is not
\* added, the moment is put in front of the list, the moment is not stored
PushDedup(moments, moment) ==
  IF \E i \in DOMAIN moments : moments[i].text = moment.text
  THEN moments ELSE Append(moments, moment)

PushFront(moments, moment) == <<moment>> \o moments

PushLost(moments, moment) == moments

\* $push of one subdocument on the stored champagneMoments array
Push(moments, moment) == Append(moments, moment)

\* await game.save(): the pushed moment is sent as a $push on the stored game;
\* a game deleted since findById makes save() throw, which the catch turns
\* into a 500
GameSave(r) ==
  /\ reqs[r].pc = "save"
  /\ LET g == reqs[r].gameId
     IN IF games[g].exists
        THEN /\ games' = [games EXCEPT ![g].champagneMoments = Push(@, reqs[r].pushed)]
             /\ reqs' = [reqs EXCEPT ![r].pc = "upsert"]
        ELSE /\ reqs' = [reqs EXCEPT ![r].pc = "done", ![r].status = 500]
             /\ UNCHANGED games
  /\ UNCHANGED <<votes, tearing, nextGame, nextOid, nextVote, submitted, results>>

\* a variant that writes the mom and dod instructions in one update and the
\* champagneMoment instruction in a second one
VoteFindOneAndUpdatePerCategory(r) ==
  /\ reqs[r].pc = "upsert"
  /\ LET matching == Matching(votes, reqs[r].gameId, reqs[r].voter.token)
         setDoc == SetDoc(reqs[r], reqs[r].pushed._id)
         unsetDoc == UnsetDoc(reqs[r], reqs[r].pushed._id)
         setFirst == [f \in DOMAIN setDoc \ {"champagneMoment"} |-> setDoc[f]]
     IN IF matching # {}
        THEN \E doc \in matching :
               LET first == ApplyUpdate(doc, setFirst, unsetDoc \ {"champagneMoment"})
                   full == ApplyUpdate(doc, setDoc, unsetDoc)
               IN IF first # doc /\ first # full
                  THEN /\ votes' = (votes \ {doc}) \cup {first}
                       /\ UNCHANGED reqs
                  ELSE /\ votes' = (votes \ {doc}) \cup {full}
                       /\ reqs' = [reqs EXCEPT ![r].pc = "done", ![r].status = 200,
                                                ![r].matched = {doc}]
        ELSE /\ reqs' = [reqs EXCEPT ![r].pc = "insert"]
             /\ UNCHANGED votes
  /\ UNCHANGED <<games, tearing, nextGame, nextOid, nextVote, submitted, results>>

\* Vote.findOneAndUpdate(filter, updateDoc, { upsert: true }): a matching
\* document is updated atomically; with none the upsert goes on to insert
VoteFindOneAndUpdate(r) ==
  /\ reqs[r].pc = "upsert"
  /\ LET matching == Matching(votes, reqs[r].gameId, reqs[r].voter.token)
         setDoc == SetDoc(reqs[r], reqs[r].pushed._id)
         unsetDoc == UnsetDoc(reqs[r], reqs[r].pushed._id)
     IN IF matching # {}
        THEN \E doc \in matching :
               /\ votes' = (votes \ {doc}) \cup {ApplyUpdate(doc, setDoc, unsetDoc)}
               /\ reqs' = [reqs EXCEPT ![r].pc = "done", ![r].status = 200,
                                        ![r].matched = {doc}]
        ELSE /\ reqs' = [reqs EXCEPT ![r].pc = "insert"]
             /\ UNCHANGED votes
  /\ UNCHANGED <<games, tearing, nextGame, nextOid, nextVote, submitted, results>>

\* the insert of the upsert: the unique index fails it with code 11000 when a
\* concurrent request inserted the key first, and the catch answers 409
VoteUpsertInsert(r) ==
  /\ reqs[r].pc = "insert"
  /\ LET setDoc == SetDoc(reqs[r], reqs[r].pushed._id)
     IN IF DuplicateKey(votes, reqs[r].gameId, reqs[r].voter.token)
        THEN /\ reqs' = [reqs EXCEPT ![r].pc = "done", ![r].status = 409]
             /\ UNCHANGED <<votes, nextVote>>
        ELSE /\ votes' = votes \cup {ApplyUpdate([_id |-> nextVote], setDoc, {})}
             /\ nextVote' = nextVote + 1
             /\ reqs' = [reqs EXCEPT ![r].pc = "done", ![r].status = 200]
  /\ UNCHANGED <<games, tearing, nextGame, nextOid, submitted, results>>

\* the awaited store call (game.save() or Vote.findOneAndUpdate) rejects with
\* an error other than E11000 and has written nothing: the catch answers 500
StoreThrows(r) ==
  /\ InFlight(reqs[r])
  /\ reqs' = [reqs EXCEPT ![r].pc = "done", ![r].status = 500]
  /\ UNCHANGED <<games, votes, tearing, nextGame, nextOid, nextVote, submitted, results>>

(* ---------------------- GET /api/games/:id/results -------------------- *)

\* the collation weights of a character: the letter, then lower before upper
Weights(ch) ==
  CASE ch = SP -> <<1, 0>>
    [] ch = "a" -> <<2, 0>> [] ch = "A" -> <<2, 1>>
    [] ch = "b" -> <<3, 0>> [] ch = "B" -> <<3, 1>>
    [] ch = "c" -> <<4, 0>> [] ch = "n" -> <<5, 0>>
    [] ch = "t" -> <<6, 0>> [] ch = "T" -> <<6, 1>>
    [] ch = "u" -> <<7, 0>>

\* two strings compared by their weights of one level, left to right
RECURSIVE compareWeights(_, _, _)
compareWeights(a, b, level) ==
  IF a = <<>> /\ b = <<>> THEN 0
  ELSE IF a = <<>> THEN -1
  ELSE IF b = <<>> THEN 1
  ELSE LET x == Weights(Head(a))[level]
           y == Weights(Head(b))[level]
       IN IF x < y THEN -1
          ELSE IF x > y THEN 1
          ELSE compareWeights(Tail(a), Tail(b), level)

\* String.prototype.localeCompare: the letters decide, then the case
localeCompare(a, b) ==
  LET primary == compareWeights(a, b, 1)
  IN IF primary # 0 THEN primary ELSE compareWeights(a, b, 2)

\* the elements of an array
Elements(s) == {s[i] : i \in DOMAIN s}

\* Array.prototype.sort(compare): the stable sort of s, where compare is the
\* compare function as a function of two elements of s
sort(s, compare) ==
  LET rank(i) == 1 + Cardinality({j \in DOMAIN s :
                        \/ compare[s[j], s[i]] < 0
                        \/ (compare[s[j], s[i]] = 0 /\ j < i)})
  IN [k \in DOMAIN s |-> s[CHOOSE i \in DOMAIN s : rank(i) = k]]

\* the compare function of buildTally without the tie-break on the player
compareTallyCountOnly(a, b) == b.count - a.count

\* the compare function of buildTally
compareTally(a, b) ==
  IF b.count # a.count THEN b.count - a.count
  ELSE localeCompare(a.player, b.player)

\* the compare function of sortedChampagneMoments
compareChampagne(a, b) ==
  IF b.votes # a.votes THEN b.votes - a.votes
  ELSE localeCompare(a.text, b.text)

\* the entry of player in a resultsMap, 0 when it has none
EntryOf(map, player) ==
  IF \E i \in DOMAIN map : map[i].player = player
  THEN CHOOSE i \in DOMAIN map : map[i].player = player
  ELSE 0

\* a variant of resultsMap whose key is the player's name in lower case
RECURSIVE resultsMapCaseFolded(_, _)
resultsMapCaseFolded(vs, field) ==
  IF vs = <<>> THEN <<>>
  ELSE LET map == resultsMapCaseFolded(SubSeq(vs, 1, Len(vs) - 1), field)
           vote == vs[Len(vs)]
           fold(ch) == IF ch = "A" THEN "a" ELSE IF ch = "B" THEN "b" ELSE ch
       IN IF field \notin DOMAIN vote \/ vote[field].player = EmptyStr THEN map
          ELSE LET player == [k \in DOMAIN vote[field].player |->
                                fold(vote[field].player[k])]
                   trimmedComment == TrimIfString(vote[field].comment)
                   added == IF trimmedComment # EmptyStr
                            THEN <<trimmedComment>> ELSE <<>>
                   i == EntryOf(map, player)
               IN IF i = 0
                  THEN Append(map, [player |-> player, count |-> 1,
                                    comments |-> added])
                  ELSE [map EXCEPT ![i].count = @ + 1,
                                   ![i].comments = @ \o added]

\* the Map of buildTally after the loop over votes, in insertion order
RECURSIVE resultsMap(_, _)
resultsMap(vs, field) ==
  IF vs = <<>> THEN <<>>
  ELSE LET map == resultsMap(SubSeq(vs, 1, Len(vs) - 1), field)
           vote == vs[Len(vs)]
       IN IF field \notin DOMAIN vote \/ vote[field].player = EmptyStr THEN map
          ELSE LET player == vote[field].player
                   trimmedComment == TrimIfString(vote[field].comment)
                   added == IF trimmedComment # EmptyStr
                            THEN <<trimmedComment>> ELSE <<>>
                   i == EntryOf(map, player)
               IN IF i = 0
                  THEN Append(map, [player |-> player, count |-> 1,
                                    comments |-> added])
                  ELSE [map EXCEPT ![i].count = @ + 1,
                                   ![i].comments = @ \o added]

\* buildTally(field) over the votes the handler read
buildTally(vs, field) ==
  LET values == resultsMap(vs, field)
  IN sort(values, [a \in Elements(values), b \in Elements(values) |->
                     compareTally(a, b)])

\* champagneResults: one entry for every moment of the game
champagneResults(game) ==
  [i \in DOMAIN game.champagneMoments |->
     [_id |-> game.champagneMoments[i]._id,
      text |-> game.champagneMoments[i].text,
      votes |-> 0, comments |-> <<>>]]

\* the entry of eventId in champagneMap, 0 when it has none
MomentOf(map, eventId) ==
  IF \E i \in DOMAIN map : map[i]._id = eventId
  THEN CHOOSE i \in DOMAIN map : map[i]._id = eventId
  ELSE 0


\* a variant of champagneMap whose entries are made when a vote names them
RECURSIVE champagneMapFromVotes(_, _)
champagneMapFromVotes(game, vs) ==
  IF vs = <<>> THEN <<>>
  ELSE LET map == champagneMapFromVotes(game, SubSeq(vs, 1, Len(vs) - 1))
           vote == vs[Len(vs)]
       IN IF "champagneMoment" \notin DOMAIN vote \/ vote.champagneMoment.eventId = 0
          THEN map
          ELSE LET eventId == vote.champagneMoment.eventId
                   known == MomentOf(champagneResults(game), eventId)
                   trimmedComment == TrimIfString(vote.champagneMoment.comment)
                   added == IF trimmedComment # EmptyStr
                            THEN <<trimmedComment>> ELSE <<>>
                   i == MomentOf(map, eventId)
               IN IF known = 0 THEN map
                  ELSE IF i = 0
                  THEN Append(map, [champagneResults(game)[known] EXCEPT
                                      !.votes = 1, !.comments = added])
                  ELSE [map EXCEPT ![i].votes = @ + 1,
                                   ![i].comments = @ \o added]

\* champagneMap after the loop over votes: a vote without an eventId, or with
\* one that is no key of the map, is skipped
RECURSIVE champagneMap(_, _)
champagneMap(game, vs) ==
  IF vs = <<>> THEN champagneResults(game)
  ELSE LET map == champagneMap(game, SubSeq(vs, 1, Len(vs) - 1))
           vote == vs[Len(vs)]
       IN IF "champagneMoment" \notin DOMAIN vote \/ vote.champagneMoment.eventId = 0
          THEN map
          ELSE LET trimmedComment == TrimIfString(vote.champagneMoment.comment)
                   added == IF trimmedComment # EmptyStr
                            THEN <<trimmedComment>> ELSE <<>>
                   i == MomentOf(map, vote.champagneMoment.eventId)
               IN IF i = 0 THEN map
                  ELSE [map EXCEPT ![i].votes = @ + 1,
                                   ![i].comments = @ \o added]

sortedChampagneMoments(game, vs) ==
  LET values == champagneMap(game, vs)
  IN sort(values, [a \in Elements(values), b \in Elements(values) |->
                     compareChampagne(a, b)])

\* userVotes: the selections of the first vote read whose token is the
\* query's, each category as the empty set (null) or the one selection
userVotes(game, vs, token) ==
  LET found == {i \in DOMAIN vs : vs[i].voter.token = token}
      first == CHOOSE i \in found : \A j \in found : i <= j
      userVote == vs[first]
      nomination(field) ==
        IF field \in DOMAIN userVote /\ userVote[field].player # EmptyStr
        THEN {[player |-> userVote[field].player,
               comment |-> userVote[field].comment]}
        ELSE {}
      map == champagneMap(game, vs)
  IN IF token = "" \/ found = {}
     THEN NoResults.userVotes
     ELSE [has |-> TRUE, mom |-> nomination("mom"), dod |-> nomination("dod"),
           champagne |->
             IF "champagneMoment" \in DOMAIN userVote
                  /\ userVote.champagneMoment.eventId # 0
             THEN LET eventId == userVote.champagneMoment.eventId
                      i == MomentOf(map, eventId)
                  IN {[eventId |-> eventId,
                       comment |-> userVote.champagneMoment.comment,
                       text |-> IF i = 0 THEN EmptyStr ELSE map[i].text]}
             ELSE {}]

\* the orders in which Vote.find can return a set of documents
Orders(S) ==
  {order \in [1..Cardinality(S) -> S] :
     \A v \in S : \E i \in 1..Cardinality(S) : order[i] = v}

\* the request arrives: Game.findById, and 404 when there is no such game
ResultsFindGame(g, token) ==
  /\ results.pc \in {"idle", "done"}
  /\ results' =
       IF games[g].exists
       THEN [NoResults EXCEPT !.pc = "votes", !.gameId = g, !.token = token,
                              !.game = games[g]]
       ELSE [NoResults EXCEPT !.pc = "done", !.gameId = g, !.token = token,
                              !.status = 404]
  /\ UNCHANGED <<games, votes, reqs, tearing, nextGame, nextOid, nextVote, submitted>>

\* await Vote.find({ gameId }) and the rest of the handler: the tallies, the
\* requester's own selections and the response
ResultsFindVotes(order) ==
  /\ results.pc = "votes"
  /\ results' =
       [results EXCEPT
          !.pc = "done", !.status = 200, !.votes = order,
          !.totals = [mom |-> buildTally(order, "mom"),
                      dod |-> buildTally(order, "dod")],
          !.champagneMoments = sortedChampagneMoments(results.game, order),
          !.userVotes = userVotes(results.game, order, results.token)]
  /\ UNCHANGED <<games, votes, reqs, tearing, nextGame, nextOid, nextVote, submitted>>

(* -------------------------- specifications ---------------------------- *)

InitialMoments == {<< <<"t">> >>}

\* the team sheets of the created games: none (rejected), and one player
TeamSheets == {<<>>, << <<"A">> >>}

Admin ==
  \/ \E teamSheet \in TeamSheets : \E texts \in InitialMoments :
       CreateGame(teamSheet, texts)
  \/ \E g \in GameIds : CloseGame(g)
  \/ \E g \in GameIds : ReopenGame(g)
  \/ \E g \in GameIds : DeleteVotes(g)
  \/ \E g \in GameIds : DeleteGame(g)

Handler(r) ==
  \/ GameSave(r)
  \/ VoteFindOneAndUpdate(r)
  \/ VoteUpsertInsert(r)
  \/ StoreThrows(r)

\* concurrent requests
Next ==
  \/ Admin
  \/ \E r \in Reqs : \E body \in RaceBodies : SubmitVote(r, body)
  \/ \E r \in Reqs : Handler(r)

Spec == Init /\ [][Next]_vars

\* one request at a time, every ballot
NextSeq ==
  \/ Admin
  \/ \E body \in SeqBodies : SubmitVote("r1", body)
  \/ Handler("r1")

SpecSeq == Init /\ [][NextSeq]_vars

\* the results route as a function of what it reads: the stores hold a game
\* and Votes drawn from the sets below, and only results requests run

\* the moment lists of game 1: none, two moments, two moments of one text,
\* three moments
TallyMoments ==
  { <<>>,
    <<[_id |-> 1, text |-> <<"u">>], [_id |-> 2, text |-> <<"t">>]>>,
    <<[_id |-> 1, text |-> <<"t">>], [_id |-> 2, text |-> <<"t">>]>>,
    <<[_id |-> 1, text |-> <<"u">>], [_id |-> 2, text |-> <<"T">>],
      [_id |-> 3, text |-> <<"t">>]>> }

\* the moment of game 2
OtherMoment == [_id |-> 4, text |-> <<"t">>]

\* the nominations of a stored Vote: a function from the categories it has
TallyNominations ==
  << [mom |-> [player |-> <<"A">>, comment |-> <<"c">>],
      dod |-> [player |-> <<"B">>, comment |-> EmptyStr],
      champagneMoment |-> [eventId |-> 1, comment |-> <<"c">>]],
     [mom |-> [player |-> <<"B">>, comment |-> EmptyStr],
      dod |-> [player |-> <<"A">>, comment |-> <<"c">>],
      champagneMoment |-> [eventId |-> 2, comment |-> EmptyStr]],
     [mom |-> [player |-> <<"a">>, comment |-> EmptyStr],
      champagneMoment |-> [eventId |-> OtherMoment._id, comment |-> <<"c">>]],
     [dod |-> [player |-> <<"a">>, comment |-> <<"n">>],
      champagneMoment |-> [eventId |-> 2, comment |-> <<"n">>]],
     [mom |-> [player |-> <<"A", "B">>, comment |-> <<"n">>],
      dod |-> [player |-> <<"B">>, comment |-> <<"n">>]],
     <<>> >>

TallyTokens == <<"t1", "t2", "t3">>

\* the token of the results query: none, a voter's, nobody's
QueryTokens == {"", "t2", "t9"}

\* a stored Vote
VoteDoc(id, g, token, nominations) ==
  [f \in {"_id", "gameId", "voter"} \cup DOMAIN nominations |->
     CASE f = "_id" -> id
       [] f = "gameId" -> g
       [] f = "voter" -> [name |-> <<"n">>, token |-> token]
       [] OTHER -> nominations[f]]

InitTally ==
  \E moments \in TallyMoments : \E other \in BOOLEAN :
  \E pick \in [DOMAIN TallyTokens -> 0..Len(TallyNominations)] :
    /\ games = [g \in GameIds |->
                  IF g = 1
                  THEN [exists |-> TRUE, status |-> "open",
                        teamSheet |-> << <<"A">> >>, champagneMoments |-> moments]
                  ELSE IF g = 2 /\ other
                  THEN [exists |-> TRUE, status |-> "closed",
                        teamSheet |-> << <<"A">> >>,
                        champagneMoments |-> <<OtherMoment>>]
                  ELSE NoGame]
    /\ votes = {VoteDoc(i, 1, TallyTokens[i], TallyNominations[pick[i]]) :
                  i \in {j \in DOMAIN TallyTokens : pick[j] # 0}}
                 \cup (IF other
                       THEN {VoteDoc(Len(TallyTokens) + 1, 2, TallyTokens[1],
                                     TallyNominations[3])}
                       ELSE {})
    /\ reqs = [r \in Reqs |-> IdleReq]
    /\ tearing = {}
    /\ nextGame = IF other THEN 3 ELSE 2
    /\ nextOid = OtherMoment._id + 1
    /\ nextVote = Len(TallyTokens) + 2
    /\ submitted = 0
    /\ results = NoResults

NextTally ==
  \/ \E g \in GameIds : \E token \in QueryTokens : ResultsFindGame(g, token)
  \/ \E order \in Orders({v \in votes : v.gameId = results.gameId}) :
       ResultsFindVotes(order)

SpecTally == InitTally /\ [][NextTally]_vars

(* ---------------------- what the properties read ---------------------- *)

Categories == {"mom", "dod", "champagneMoment"}

\* the stored Votes of one (game, voter token) pair
VotesFor(vs, g, t) == {v \in vs : v.gameId = g /\ v.voter.token = t}

\* the stored nomination of one category: empty, or the one value
Stored(vs, g, t, c) == {v[c] : v \in {w \in VotesFor(vs, g, t) : c \in DOMAIN w}}

\* this step is the arrival of request r
Arrives(r) == reqs'[r].gameId \in GameIds /\ SubmitVote(r, BodyOf(reqs'[r]))

\* this step ends request r with the given status
Answers(r, status) ==
  /\ reqs'[r].pc = "done"
  /\ reqs'[r].status = status
  /\ (reqs[r] # reqs'[r] \/ Arrives(r))

\* this step is the Vote write of request r
Accepted(r) == InFlight(reqs[r]) /\ Answers(r, 200)

BlankVoter(voter) ==
  \/ voter.token = ""
  \/ voter.name = Undefined
  \/ \A i \in 1..Len(voter.name) : voter.name[i] = SP

(* ------------------------------- C1 ----------------------------------- *)

\* C1: in every reachable state the Vote store holds at most one Vote for
\* each (gameId, voter token) pair.
C1_OneVotePerVoter ==
  \A g \in GameIds : \A t \in Tokens : Cardinality(VotesFor(votes, g, t)) <= 1

\* two requests of one voter for one game raced on the first insert, and the
\* game holds that voter's Vote
C1_Witness ==
  \E r1 \in Reqs : \E r2 \in Reqs \ {r1} :
    /\ reqs[r1].pc = "done" /\ reqs[r1].status = 200
    /\ reqs[r2].pc = "done" /\ reqs[r2].status = 409
    /\ reqs[r1].gameId = reqs[r2].gameId
    /\ reqs[r1].voter.token = reqs[r2].voter.token
    /\ r1 \in reqs[r2].during
    /\ VotesFor(votes, reqs[r1].gameId, reqs[r1].voter.token) # {}

(* ------------------------------- C2 ----------------------------------- *)

\* C2: a submitVote answered NotFound (404), VotingClosed (403) or
\* ValidationError (400) changes neither the Game store nor the Vote store,
\* and a submitVote that arrives at a closed game is answered 403.
C2_RejectedStoresNothing ==
  [][\A r \in Reqs :
       /\ (Answers(r, 404) \/ Answers(r, 403) \/ Answers(r, 400))
            => games' = games /\ votes' = votes
       /\ (Arrives(r) /\ games[reqs'[r].gameId].exists
             /\ games[reqs'[r].gameId].status = "closed")
            => Answers(r, 403) /\ games' = games /\ votes' = votes]_vars

\* a ballot with new moment text was rejected for its voter identity, and one
\* was rejected at a closed game
C2_Witness ==
  \E r \in Reqs :
    /\ reqs[r].pc = "done"
    /\ reqs[r].status \in {400, 403}
    /\ NewText(reqs[r]) # EmptyStr
    /\ games[reqs[r].gameId].exists
    /\ (reqs[r].status = 403 => games[reqs[r].gameId].status = "closed")
    /\ (reqs[r].status = 400 => BlankVoter(reqs[r].voter))

(* ------------------------------- C3 ----------------------------------- *)

\* C3: the preconditions are checked in the order game exists, game open,
\* voter identity: no game gives 404 whatever the body, a closed game gives
\* 403 even with a missing token or blank name, and 400 is answered exactly
\* when the game exists, is open and the token is absent or the name blank.
C3_PreconditionOrder ==
  [][\A r \in Reqs :
       /\ Arrives(r) =>
            LET q == reqs'[r]
                game == games[q.gameId]
            IN /\ ~game.exists => q.status = 404
               /\ (game.exists /\ game.status = "closed") => q.status = 403
               /\ (q.status = 400) <=>
                    (game.exists /\ game.status = "open" /\ BlankVoter(q.voter))
       /\ Answers(r, 400) => Arrives(r)]_vars

\* a request without voter identity was answered 403 at a closed game
C3_Witness ==
  \E r \in Reqs :
    /\ reqs[r].pc = "done"
    /\ reqs[r].status = 403
    /\ BlankVoter(reqs[r].voter)

(* ------------------------------- C4 ----------------------------------- *)

\* both requests ran at the same time, for one voter of one game
Raced(r1, r2) ==
  /\ reqs[r1].pc = "done"
  /\ reqs[r2].pc = "done"
  /\ reqs[r1].gameId = reqs[r2].gameId
  /\ reqs[r1].voter.token = reqs[r2].voter.token
  /\ (r1 \in reqs[r2].during \/ r2 \in reqs[r1].during)

\* C4: when two submitVote calls of one voter for one open game run
\* concurrently with valid voter identity, neither is answered a conflict or
\* any other failure: both are answered 200 with the stored Vote.
C4_RaceNeverFails ==
  \A r1 \in Reqs : \A r2 \in Reqs \ {r1} :
    (/\ Raced(r1, r2)
     /\ games[reqs[r1].gameId].exists
     /\ reqs[r1].status \notin {404, 403, 400}
     /\ reqs[r2].status \notin {404, 403, 400})
      => reqs[r1].status = 200 /\ reqs[r2].status = 200

(* ------------------------------- C5 ----------------------------------- *)

\* the nominations a document holds, by category
Content(doc) == [c \in DOMAIN doc \cap Categories |-> doc[c]]

\* the nominations request q asked to store
Submission(q) == Content(SetDoc(q, q.pushed._id))

FullBallot(q) == q.mom.present /\ q.dod.present /\ q.champagneMoment.present

\* two raced requests have both been answered, by 200 or by the 409 of the
\* lost insert, and the teardown of their game has not begun
BothCompleted(r1, r2) ==
  /\ Raced(r1, r2)
  /\ reqs[r1].status \in {200, 409}
  /\ reqs[r2].status \in {200, 409}
  /\ games[reqs[r1].gameId].exists
  /\ reqs[r1].gameId \notin tearing

\* C5 as stated: once two concurrent submitVote calls of one voter for one
\* game have completed, exactly one Vote is stored for the pair and its
\* content is the content of one of the two submissions.
C5_MatchesOneSubmission ==
  \A r1 \in Reqs : \A r2 \in Reqs \ {r1} :
    BothCompleted(r1, r2) =>
      LET stored == VotesFor(votes, reqs[r1].gameId, reqs[r1].voter.token)
      IN /\ Cardinality(stored) = 1
         /\ \A v \in stored :
              Content(v) = Submission(reqs[r1]) \/ Content(v) = Submission(reqs[r2])

\* C5 as amended: exactly one Vote is stored for the pair, and its content is
\* the content of one of the two submissions when both ballots carry all
\* three categories.
C5_OneVoteFullBallotMatches ==
  \A r1 \in Reqs : \A r2 \in Reqs \ {r1} :
    BothCompleted(r1, r2) =>
      LET stored == VotesFor(votes, reqs[r1].gameId, reqs[r1].voter.token)
      IN /\ Cardinality(stored) = 1
         /\ (FullBallot(reqs[r1]) /\ FullBallot(reqs[r2])) =>
              \A v \in stored :
                Content(v) = Submission(reqs[r1]) \/ Content(v) = Submission(reqs[r2])

\* two raced requests with different full ballots have completed, both
\* writes applied, and the Vote holds the content of one of them
C5_Witness ==
  \E r1 \in Reqs : \E r2 \in Reqs \ {r1} :
    /\ BothCompleted(r1, r2)
    /\ reqs[r1].status = 200 /\ reqs[r2].status = 200
    /\ FullBallot(reqs[r1]) /\ FullBallot(reqs[r2])
    /\ Submission(reqs[r1]) # Submission(reqs[r2])
    /\ \E v \in votes : v.gameId = reqs[r1].gameId
                        /\ v.voter.token = reqs[r1].voter.token
                        /\ Content(v) = Submission(reqs[r2])

(* --------------------------- C6 to C10 -------------------------------- *)

\* the nomination a mom or dod entry asks to store: empty for a blank player
Asked(entry) ==
  IF entry.player = Undefined \/ \A i \in 1..Len(entry.player) : entry.player[i] = SP
  THEN {}
  ELSE {[player |-> Trim(entry.player),
         comment |-> IF entry.comment = Undefined THEN EmptyStr ELSE Trim(entry.comment)]}

\* the moment selection carries neither an id nor non-blank text
NoSelection(cm) ==
  /\ cm.eventId = 0
  /\ (cm.textIfNew = Undefined \/ \A i \in 1..Len(cm.textIfNew) : cm.textIfNew[i] = SP)

StoredBefore(r, c) == Stored(votes, reqs[r].gameId, reqs[r].voter.token, c)
StoredAfter(r, c) == Stored(votes', reqs[r].gameId, reqs[r].voter.token, c)

\* C6: an accepted submitVote leaves the stored nomination of every category
\* its ballot omits unchanged, and sets or clears the categories it carries
\* (so {mom: A} then {dod: B} ends with mom A and dod B).
C6_PartialAmendment ==
  [][\A r \in Reqs : Accepted(r) =>
       /\ \A c \in Categories : ~reqs[r][c].present => StoredAfter(r, c) = StoredBefore(r, c)
       /\ \A c \in {"mom", "dod"} : reqs[r][c].present => StoredAfter(r, c) = Asked(reqs[r][c])
       /\ reqs[r].champagneMoment.present =>
            (StoredAfter(r, "champagneMoment") = {} <=> NoSelection(reqs[r].champagneMoment))]_vars

\* a voter whose Vote held mom A sent a ballot with dod B and no mom, and the
\* Vote holds both
C6_Witness ==
  \E r \in Reqs :
    /\ reqs[r].pc = "done" /\ reqs[r].status = 200
    /\ ~reqs[r].mom.present
    /\ reqs[r].dod.present
    /\ \E old \in reqs[r].matched : "mom" \in DOMAIN old /\ "dod" \notin DOMAIN old
    /\ \E v \in VotesFor(votes, reqs[r].gameId, reqs[r].voter.token) :
         /\ "mom" \in DOMAIN v /\ v.mom.player = <<"A">>
         /\ "dod" \in DOMAIN v /\ v.dod.player = <<"B">>

\* no stored mom or dod nomination has an empty player
NoEmptyPlayer(vs) ==
  \A v \in vs : \A c \in {"mom", "dod"} \cap DOMAIN v : v[c].player # EmptyStr

\* C7: an accepted submitVote whose mom or dod entry is present with an
\* absent, empty or whitespace-only player removes the stored nomination of
\* that category and leaves the categories the ballot omits as they were; no
\* stored Vote ever holds a mom or dod nomination with an empty player.
C7_CategoryClearing ==
  [][/\ \A r \in Reqs : Accepted(r) =>
          \A c \in {"mom", "dod"} :
            (reqs[r][c].present /\ Asked(reqs[r][c]) = {}) =>
              /\ StoredAfter(r, c) = {}
              /\ \A d \in Categories \ {c} :
                   ~reqs[r][d].present => StoredAfter(r, d) = StoredBefore(r, d)
     /\ NoEmptyPlayer(votes')]_vars

\* a voter whose Vote held a mom nomination sent a mom entry with a blank
\* player, and the Vote holds no mom nomination
C7_Witness ==
  \E r \in Reqs :
    /\ reqs[r].pc = "done" /\ reqs[r].status = 200
    /\ reqs[r].mom.present /\ Asked(reqs[r].mom) = {}
    /\ \E old \in reqs[r].matched : "mom" \in DOMAIN old
    /\ \E v \in VotesFor(votes, reqs[r].gameId, reqs[r].voter.token) : "mom" \notin DOMAIN v

\* C8: when a ballot is submitted again right after it was accepted, for the
\* same game and voter, the second write leaves exactly one Vote for the
\* pair (the Vote of the first submission, when it is still stored), holding
\* what the second submission asks: its mom and dod entries and the moment
\* it selected or created.
C8_IdempotentResubmission ==
  [][\A r \in Reqs : (Accepted(r) /\ reqs[r].repeat) =>
       LET before == VotesFor(votes, reqs[r].gameId, reqs[r].voter.token)
           after == VotesFor(votes', reqs[r].gameId, reqs[r].voter.token)
           cm == reqs[r].champagneMoment
       IN /\ Cardinality(after) = 1
          /\ {v._id : v \in before} \subseteq {v._id : v \in after}
          /\ \A c \in {"mom", "dod"} :
               reqs[r][c].present => StoredAfter(r, c) = Asked(reqs[r][c])
          /\ (cm.present /\ cm.eventId # 0) =>
               {n.eventId : n \in StoredAfter(r, "champagneMoment")} = {cm.eventId}
          /\ (cm.present /\ cm.eventId = 0 /\ ~NoSelection(cm)) =>
               {n.eventId : n \in StoredAfter(r, "champagneMoment")} = {reqs[r].pushed._id}]_vars

\* a ballot with new moment text was accepted twice in a row, and the one
\* Vote references the moment the second submission created
C8_Witness ==
  \E r \in Reqs :
    /\ reqs[r].pc = "done" /\ reqs[r].status = 200
    /\ reqs[r].repeat
    /\ reqs[r].pushed._id # 0
    /\ \E old \in reqs[r].matched :
         "champagneMoment" \in DOMAIN old /\ old.champagneMoment.eventId # reqs[r].pushed._id
    /\ \E v \in VotesFor(votes, reqs[r].gameId, reqs[r].voter.token) :
         "champagneMoment" \in DOMAIN v /\ v.champagneMoment.eventId = reqs[r].pushed._id

\* C9: when an accepted ballot's moment selection carries non-blank new text,
\* the stored Vote references the moment created for that text, whether or
\* not the selection also carried an existing moment id.
C9_NewTextTakesPrecedence ==
  [][\A r \in Reqs : (Accepted(r) /\ NewText(reqs[r]) # EmptyStr) =>
       /\ reqs[r].pushed._id # 0
       /\ {n.eventId : n \in StoredAfter(r, "champagneMoment")} = {reqs[r].pushed._id}]_vars

\* C10: when an accepted ballot's moment selection is present with neither an
\* id nor non-blank text, the request creates no Moment and the Vote holds
\* no moment nomination afterwards, neither id nor comment.
C10_EmptySelectionClears ==
  [][\A r \in Reqs :
       (Accepted(r) /\ reqs[r].champagneMoment.present
          /\ NoSelection(reqs[r].champagneMoment)) =>
         /\ reqs[r].pushed = NoMoment
         /\ games' = games
         /\ StoredAfter(r, "champagneMoment") = {}
         /\ \A v \in VotesFor(votes', reqs[r].gameId, reqs[r].voter.token) :
              "champagneMoment" \notin DOMAIN v]_vars

\* a voter whose Vote referenced a moment sent a selection with a comment
\* but no id and blank text, and the Vote holds no moment nomination
C10_Witness ==
  \E r \in Reqs :
    /\ reqs[r].pc = "done" /\ reqs[r].status = 200
    /\ reqs[r].champagneMoment.present
    /\ NoSelection(reqs[r].champagneMoment)
    /\ reqs[r].champagneMoment.comment # Undefined
    /\ \E old \in reqs[r].matched : "champagneMoment" \in DOMAIN old
    /\ \E v \in VotesFor(votes, reqs[r].gameId, reqs[r].voter.token) :
         "champagneMoment" \notin DOMAIN v

(* ------------------------------- C11 ---------------------------------- *)

\* the identifiers of the Moments of a moment list
MomentIds(moments) == {moments[i]._id : i \in DOMAIN moments}

\* C11 as stated: in every reachable state the moment identifier referenced
\* by a stored Vote is the identifier of a Moment in the moment list of that
\* Vote's own Game (Votes of a Game that no longer exists are left aside).
C11_ReferentialConsistency ==
  \A v \in votes :
    ("champagneMoment" \in DOMAIN v /\ games[v.gameId].exists)
      => v.champagneMoment.eventId \in MomentIds(games[v.gameId].champagneMoments)

(* ------------------------------- C12 ---------------------------------- *)

\* C12: the Vote store changes only by the teardown's deleteMany or by the
\* one write that ends an accepted submitVote, and that write leaves one
\* Vote of the request's (game, voter) pair in which every category the
\* ballot carries is set or cleared as the ballot instructs: no state holds a
\* Vote with only some of the instructions of a submission.
C12_SingleWrite ==
  [][votes' # votes =>
       \/ tearing' # tearing
       \/ \E r \in Reqs :
            /\ Accepted(r)
            /\ Cardinality(votes' \ votes) = 1
            /\ Cardinality(votes \ votes') <= 1
            /\ \A v \in votes' \ votes :
                 /\ v.gameId = reqs[r].gameId
                 /\ v.voter.token = reqs[r].voter.token
                 /\ \A c \in Categories :
                      reqs[r][c].present =>
                        IF c \in DOMAIN Submission(reqs[r])
                        THEN c \in DOMAIN v /\ v[c] = Submission(reqs[r])[c]
                        ELSE c \notin DOMAIN v]_vars

\* a ballot that sets mom, clears dod and names a new moment has amended a
\* Vote that held a dod nomination only; the Vote now holds all three
\* instructions
C12_Witness ==
  \E r \in Reqs : \E v \in votes :
    /\ reqs[r].pc = "done" /\ reqs[r].status = 200
    /\ FullBallot(reqs[r])
    /\ \E doc \in reqs[r].matched : DOMAIN doc \cap Categories = {"dod"}
    /\ v.gameId = reqs[r].gameId /\ v.voter.token = reqs[r].voter.token
    /\ DOMAIN v \cap Categories = {"mom", "champagneMoment"}
    /\ Content(v) = Submission(reqs[r])

(* ------------------------------- C13 ---------------------------------- *)

\* the results request has answered with the tallies
Tallied == results.pc = "done" /\ results.status = 200

\* the stored Votes of the game the results request asked for
GameVotes == {v \in votes : v.gameId = results.gameId}

\* the Votes of GameVotes whose moment nomination references eventId
Referencing(eventId) ==
  {v \in GameVotes : "champagneMoment" \in DOMAIN v
                       /\ v.champagneMoment.eventId = eventId}

\* C13: the moment results hold one entry for every Moment of the game, with
\* its text, and no other entry; the count of an entry is the number of the
\* game's Votes whose moment nomination references that Moment (0 included).
C13_MomentTally ==
  Tallied =>
    LET moments == results.game.champagneMoments
        out == results.champagneMoments
    IN /\ Len(out) = Len(moments)
       /\ \A i \in DOMAIN moments :
            \E j \in DOMAIN out :
              /\ out[j]._id = moments[i]._id
              /\ out[j].text = moments[i].text
              /\ out[j].votes = Cardinality(Referencing(moments[i]._id))
              /\ \A k \in DOMAIN out : out[k]._id = moments[i]._id => k = j

\* a game of three Moments of which one has two votes and two have none,
\* while a third Vote of the game references a Moment of another game
C13_Witness ==
  /\ Tallied
  /\ Len(results.champagneMoments) = 3
  /\ Cardinality({j \in DOMAIN results.champagneMoments :
                    results.champagneMoments[j].votes = 0}) = 2
  /\ \E j \in DOMAIN results.champagneMoments : results.champagneMoments[j].votes = 2
  /\ Referencing(OtherMoment._id) # {}

(* ------------------------------- C14 ---------------------------------- *)

\* the Votes of GameVotes that nominate exactly this name in the category
Nominating(field, player) ==
  {v \in GameVotes : field \in DOMAIN v /\ v[field].player = player}

\* the names that at least one Vote of GameVotes nominates in the category
Nominated(field) == {v[field].player : v \in {w \in GameVotes : field \in DOMAIN w}}

\* C14: the mom and the dod tally hold exactly the names that at least one
\* of the game's Votes nominates in the category, each once, with the number
\* of Votes nominating exactly that name (A and a are two entries); a Vote
\* without a nomination in the category adds nothing.
C14_PlayerTally ==
  Tallied =>
    \A field \in {"mom", "dod"} :
      LET out == results.totals[field]
      IN /\ {out[i].player : i \in DOMAIN out} = Nominated(field)
         /\ Len(out) = Cardinality(Nominated(field))
         /\ \A i \in DOMAIN out :
              out[i].count = Cardinality(Nominating(field, out[i].player))

\* the mom tally holds an entry for A and another for a, one vote each, and
\* a third Vote of the game has no mom nomination
C14_Witness ==
  /\ Tallied
  /\ \E i \in DOMAIN results.totals.mom : \E j \in DOMAIN results.totals.mom :
       /\ results.totals.mom[i].player = <<"A">> /\ results.totals.mom[i].count = 1
       /\ results.totals.mom[j].player = <<"a">> /\ results.totals.mom[j].count = 1
  /\ \E v \in GameVotes : "mom" \notin DOMAIN v

(* ------------------------------- C15 ---------------------------------- *)

\* the (name, count) pairs of a mom or dod tally, and of the moment results
PlayerPairs(tally) == [i \in DOMAIN tally |-> <<tally[i].player, tally[i].count>>]
MomentPairs(tally) == [i \in DOMAIN tally |-> <<tally[i].text, tally[i].votes>>]

\* C15: each of the mom, dod and moment results is sorted by count
\* descending, equal counts by ascending player name or moment text (the
\* alphabetical order of localeCompare, a before A before b), and its
\* sequence of (name, count) pairs is the same for every order in which the
\* store can return the game's Votes.
C15_DeterministicOrder ==
  Tallied =>
    /\ \A field \in {"mom", "dod"} :
         LET out == results.totals[field]
         IN \A i \in DOMAIN out : \A j \in DOMAIN out :
              i < j =>
                \/ out[i].count > out[j].count
                \/ /\ out[i].count = out[j].count
                   /\ localeCompare(out[i].player, out[j].player) < 0
    /\ LET out == results.champagneMoments
       IN \A i \in DOMAIN out : \A j \in DOMAIN out :
            i < j =>
              \/ out[i].votes > out[j].votes
              \/ /\ out[i].votes = out[j].votes
                 /\ localeCompare(out[i].text, out[j].text) <= 0
    /\ \A order \in Orders(GameVotes) :
         /\ \A field \in {"mom", "dod"} :
              PlayerPairs(buildTally(order, field)) = PlayerPairs(results.totals[field])
         /\ MomentPairs(sortedChampagneMoments(results.game, order))
              = MomentPairs(results.champagneMoments)

\* the store returned a Vote for B before a Vote for A: the mom tally lists
\* A before B, one vote each, the dod tally lists a before A before B, and
\* the moment results begin with the Moment of two votes
C15_Witness ==
  /\ Tallied
  /\ Len(results.votes) = 3
  /\ "mom" \in DOMAIN results.votes[1]
  /\ results.votes[1].mom.player = <<"B">>
  /\ PlayerPairs(results.totals.mom) = << <<(<<"A">>), 1>>, <<(<<"B">>), 1>> >>
  /\ PlayerPairs(results.totals.dod)
       = << <<(<<"a">>), 1>>, <<(<<"A">>), 1>>, <<(<<"B">>), 1>> >>
  /\ Len(results.champagneMoments) >= 2
  /\ results.champagneMoments[1].votes = 2

(* ------------------------------- C16 ---------------------------------- *)

\* C16: the status of a game is open or closed; a created game has status
\* open; and in every state, for every existing game, a close request
\* leaves the game closed and a reopen request leaves it open, whatever its
\* status and Votes (so a repeated close or reopen changes nothing).
C16_StatusMachine ==
  /\ \A g \in GameIds : games[g].status \in {"open", "closed"}
  /\ \A teamSheet \in TeamSheets : \A texts \in InitialMoments :
       ~ENABLED (/\ CreateGame(teamSheet, texts)
                 /\ games'[nextGame].exists
                 /\ games'[nextGame].status # "open")
  /\ \A g \in GameIds :
       games[g].exists =>
         /\ ENABLED (CloseGame(g) /\ games'[g].status = "closed")
         /\ ENABLED (ReopenGame(g) /\ games'[g].status = "open")
         /\ ~ENABLED (CloseGame(g) /\ games'[g].status # "closed")
         /\ ~ENABLED (ReopenGame(g) /\ games'[g].status # "open")

\* a game with a stored Vote has been closed while a request is in flight,
\* and another game is open
C16_Witness ==
  \E g \in GameIds : \E h \in GameIds :
    /\ games[g].exists /\ games[g].status = "closed"
    /\ {v \in votes : v.gameId = g} # {}
    /\ \E r \in Reqs : InFlight(reqs[r]) /\ reqs[r].gameId = g
    /\ games[h].exists /\ games[h].status = "open"

(* ------------------------------- C17 ---------------------------------- *)

\* C17 as stated: every stored mom or dod nomination names a player of the
\* team sheet of its Game (Votes of a Game that no longer exists are left
\* aside).
C17_RosterValidated ==
  \A v \in votes : \A field \in {"mom", "dod"} :
    (games[v.gameId].exists /\ field \in DOMAIN v)
      => \E i \in DOMAIN games[v.gameId].teamSheet :
           games[v.gameId].teamSheet[i] = v[field].player

(* ------------------------------- C18 ---------------------------------- *)

\* this step is the game.save() of request r on a game that exists
Saves(r) == reqs[r].pc = "save" /\ reqs'[r].pc = "upsert"

\* C18: the save of a submitVote that carries non-blank new text adds one
\* Moment with that text to the game, whether or not a Moment of the game
\* has the same text, and its identifier is the identifier of no Moment of
\* any game; an accepted submitVote with non-blank new text has made that
\* save, and its Moment is in the game's list once.
C18_NoDeduplication ==
  [][\A r \in Reqs :
       LET g == reqs[r].gameId
           moments == games[g].champagneMoments
       IN /\ Saves(r) =>
               /\ Len(games'[g].champagneMoments) = Len(moments) + 1
               /\ games'[g].champagneMoments[Len(moments) + 1]
                    = [_id |-> reqs[r].pushed._id, text |-> NewText(reqs[r])]
               /\ \A h \in GameIds :
                    reqs[r].pushed._id \notin MomentIds(games[h].champagneMoments)
          /\ (Accepted(r) /\ NewText(reqs[r]) # EmptyStr /\ games[g].exists) =>
               Cardinality({i \in DOMAIN moments : moments[i] = reqs[r].pushed}) = 1
     ]_vars

\* one voter has twice submitted the text of the game's first Moment: the
\* game has three Moments of that text, and the Vote names the last
C18_Witness ==
  \E r \in Reqs : \E v \in votes :
    LET moments == games[reqs[r].gameId].champagneMoments
    IN /\ reqs[r].pc = "done" /\ reqs[r].status = 200
       /\ Len(moments) = 3
       /\ \A i \in DOMAIN moments : moments[i].text = moments[1].text
       /\ Cardinality(MomentIds(moments)) = 3
       /\ moments[3] = reqs[r].pushed
       /\ v.gameId = reqs[r].gameId
       /\ "champagneMoment" \in DOMAIN v
       /\ v.champagneMoment.eventId = moments[3]._id
       /\ Cardinality(votes) = 1

(* ------------------------------- C19 ---------------------------------- *)

\* list s begins with list t
Extends(s, t) == Len(t) <= Len(s) /\ SubSeq(s, 1, Len(t)) = t

\* C19: in every step that leaves a game in existence the moment list of
\* the game after the step begins with its list before the step: no Moment
\* is removed, moved, given another identifier or another text, by a
\* submission, a close, a reopen or two submissions that append concurrently.
C19_AppendOnly ==
  [][\A g \in GameIds :
       (games[g].exists /\ games'[g].exists)
         => Extends(games'[g].champagneMoments, games[g].champagneMoments)]_vars

\* two submissions that ran concurrently have both appended a Moment to a
\* game that has since been closed: the list is the first Moment, then theirs
C19_Witness ==
  \E r1 \in Reqs : \E r2 \in Reqs \ {r1} :
    LET moments == games[reqs[r1].gameId].champagneMoments
    IN /\ reqs[r1].gameId = reqs[r2].gameId
       /\ r1 \in reqs[r2].during
       /\ games[reqs[r1].gameId].status = "closed"
       /\ Len(moments) = 3
       /\ moments[1]._id < reqs[r1].pushed._id
       /\ {moments[2], moments[3]} = {reqs[r1].pushed, reqs[r2].pushed}

(* ------------------------------- C20 ---------------------------------- *)

\* the Moment that request r pushed is in the list of its game
Appended(r, gs) ==
  \E i \in DOMAIN gs[reqs[r].gameId].champagneMoments :
    gs[reqs[r].gameId].champagneMoments[i] = reqs[r].pushed

\* C20: the save that appends the Moment of a submitVote writes no Vote; the
\* Vote write is a later step that leaves the games unchanged and finds the
\* Moment in the game's list; no other step of the request changes the Vote
\* store; and when the request fails (500, or 409) after its save, that step
\* changes neither store, so the game keeps the Moment and no Vote has been
\* created or modified for it.
C20_AppendBeforeWrite ==
  [][\A r \in Reqs :
       LET g == reqs[r].gameId
       IN /\ Saves(r) => votes' = votes /\ ~Appended(r, games) /\ Appended(r, games')
          /\ Accepted(r) =>
               /\ games' = games
               /\ (reqs[r].pushed # NoMoment /\ games[g].exists) => Appended(r, games)
          /\ (reqs'[r] # reqs[r] /\ ~Accepted(r)) => votes' = votes
          /\ (/\ reqs[r].pc \in {"upsert", "insert"}
              /\ reqs[r].pushed # NoMoment
              /\ (Answers(r, 500) \/ Answers(r, 409))) =>
               /\ votes' = votes /\ games' = games
               /\ games[g].exists => Appended(r, games')
     ]_vars

\* a request with new text has saved its Moment and then failed with 500:
\* the Moment is the last of the game's list and the Vote store is empty
C20_Witness ==
  \E r \in Reqs :
    LET moments == games[reqs[r].gameId].champagneMoments
    IN /\ reqs[r].pc = "done" /\ reqs[r].status = 500
       /\ reqs[r].pushed # NoMoment
       /\ games[reqs[r].gameId].exists
       /\ Len(moments) = 2
       /\ moments[2] = reqs[r].pushed
       /\ votes = {}

(* ------------------------------- C21 ---------------------------------- *)

\* C21 as stated: no step writes a Vote (the Vote write of an accepted
\* submitVote) or appends a Moment (its save) while the stored status of the
\* request's game is closed.
C21_NoWriteWhileClosed ==
  [][\A r \in Reqs :
       (Accepted(r) \/ Saves(r))
         => ~(games[reqs[r].gameId].exists
                /\ games[reqs[r].gameId].status = "closed")]_vars

(* ------------------------------- C22 ---------------------------------- *)

\* C22 as stated: in every reachable state the gameId of each stored Vote is
\* that of a Game that exists (so no Vote of a game remains or appears once
\* the teardown of the game has completed).
C22_VotesDieWithGame ==
  \A v \in votes : games[v.gameId].exists

(* ------------------------------- C23 ---------------------------------- *)

\* the stored Votes of every other token and of every other game
Others(vs, g, t) == {v \in vs : v.gameId # g \/ v.voter.token # t}

\* C23: no step of a submitVote for (game g, token t) creates, changes or
\* removes a Vote of another token or of another game; its Vote write leaves
\* in every category what the ballot instructs or, for a category the ballot
\* omits, what the voter's own Vote held, so the result does not depend on
\* the submissions of other voters or on their order; and a submitVote is
\* answered a conflict only when a Vote of its own (g, t) is stored.
C23_VoterIndependence ==
  [][\A r \in Reqs :
       (reqs'[r] # reqs[r] \/ Arrives(r)) =>
         LET g == reqs'[r].gameId
             t == reqs'[r].voter.token
         IN /\ Others(votes', g, t) = Others(votes, g, t)
            /\ Accepted(r) =>
                 \A c \in Categories :
                   StoredAfter(r, c) =
                     IF ~reqs[r][c].present THEN StoredBefore(r, c)
                     ELSE IF c \in DOMAIN Submission(reqs[r])
                     THEN {Submission(reqs[r])[c]} ELSE {}
            /\ Answers(r, 409) => VotesFor(votes, g, t) # {}]_vars

\* two voters submitted different full ballots for one game concurrently:
\* both were answered 200 and each voter's Vote holds that voter's ballot
C23_Witness ==
  \E r1 \in Reqs : \E r2 \in Reqs \ {r1} :
    /\ reqs[r1].pc = "done" /\ reqs[r1].status = 200
    /\ reqs[r2].pc = "done" /\ reqs[r2].status = 200
    /\ reqs[r1].gameId = reqs[r2].gameId
    /\ reqs[r1].voter.token # reqs[r2].voter.token
    /\ r1 \in reqs[r2].during
    /\ FullBallot(reqs[r1]) /\ FullBallot(reqs[r2])
    /\ Submission(reqs[r1]) # Submission(reqs[r2])
    /\ \A r \in {r1, r2} :
         {Content(v) : v \in VotesFor(votes, reqs[r].gameId, reqs[r].voter.token)}
           = {Submission(reqs[r])}
====
